---- MODULE Spec2Model ----
(***************************************************************************)
(* Verification model of the ShuckleCodes blog application.                *)
(*                                                                         *)
(*  - the migration runner  (server/src/migrations/runner.ts)              *)
(*  - the server start-up   (server/src/index.ts)                          *)
(*  - the post organizer    (client/src/components/PostList.tsx)           *)
(*                                                                         *)
(* Migration names are modelled by their position in the declared list:    *)
(* name i is the i-th entry of `migrations`.                               *)
(***************************************************************************)
EXTENDS Integers, Sequences, FiniteSets, TLC

(* ------------------------------ bounds -------------------------------- *)
\* number of entries of the `migrations` array (the array is open-ended)
NumMigrations == 3
\* number of runMigrations invocations (process starts) per instance
MaxRuns == 3
\* number of runMigrations invocations per instance when two instances overlap
MaxConcRuns == 1
\* number of HTTP requests the server is observed handling
MaxRequests == 2
\* number of posts held in the PostList component state
MaxPosts == 3
\* number of distinct series names / series_order values drawn for a post
NumSeries == 2
MaxOrder == 2
\* number of distinct non-empty tag strings drawn for a post
NumTags == 2
\* created_at is drawn from the first MaxYear + 1 years after the epoch
MaxYear == 1
\* resolution of the modelled clock: distinct instants inside one month
TicksPerMonth == 2
\* the primary feed is checked on collections of up to MaxFeedPosts posts
\* created at the instants 0..MaxFeedTime
MaxFeedPosts == 4
MaxFeedTime == 2

\* requests to the posts API in one session
MaxApiRequests == 3

\* loadPosts calls, confirmation dialogs and opened posts in one browser session
MaxLoads == 3
MaxDialogs == 2
MaxVisits == 1

\* characters of a tag, and tags selected in the form
MaxTagLen == 2
MaxSelected == 2

(* ------------------------- program constants -------------------------- *)
\* statements executed by a migration's up(): three client.query calls
NumStatements == 3
\* MONTH_NAMES has twelve entries; Date.getMonth() yields 0..11
MonthsPerYear == 12
\* sortedPosts.slice(0, 3) / slice(3)
FeaturedCount == 3
\* new Pool({ max: 20, ... })
PoolMax == 20
\* new Date(0).getFullYear() in UTC
EpochYear == 1970

VARIABLES
  \* --- database ---
  tableExists,   \* the _migrations table exists
  migRows,       \* rows of _migrations, in insertion order (the name column)
  schema,        \* schema objects created so far: <<migration, statement>>
  \* --- runMigrations, per instance ---
  pc,            \* position of the instance inside runMigrations
  executed,      \* local `executed` (Set of names)
  pending,       \* local `pending` (array of migrations)
  idx,           \* position of the for..of loop inside `pending`
  stmt,          \* next statement of the running up()
  client,        \* the instance holds a pooled client
  err,           \* the error the last run threw to its caller
  failSite,      \* the await at which that error was raised
  runs,          \* number of invocations so far
  \* --- observation of the runs (history) ---
  ran,           \* migrations whose up() was called in the current run
  marked,        \* names this run inserted into _migrations
  startRows,     \* rows of _migrations when the current run started
  startSchema,   \* schema when the current run started
  prevOutcome,   \* how the previous run of this instance ended
  upRuns,        \* per migration: total number of calls of up()
  failedAt,      \* per migration: runs that threw in its up() or its insert
  \* --- HTTP server (index.ts) ---
  serverPc,
  handled,       \* requests handled so far
  handledPending,\* some request was handled while a migration was unrecorded
  busy,          \* pooled clients held by pool.query calls of request handlers
  \* --- PostList component ---
  posts,         \* component state `posts`
  selectedTag,   \* component state `selectedTag`: <<>> for null, else <<tag>>
  tz,            \* offset of the browser's local time from UTC, in ticks
  allTags,       \* render: allTags
  allButton,     \* render: the count on the "All" button, <<>> when not shown
  tagButtons,    \* render: one [tag, count] per tag button
  filteredPosts, \* render: filteredPosts
  sortedPosts,   \* render: sortedPosts
  featuredPosts, \* render: featuredPosts
  olderPosts,    \* render: olderPosts
  dateTree,      \* render: buildDateTree(posts)
  seriesGroups,  \* render: buildSeriesGroups(posts)
  viewPc,
  \* --- posts API (routes/posts.ts) and the posts table ---
  postsTable,    \* rows of table posts
  nextId,        \* next value of the SERIAL sequence of posts.id
  now,           \* CURRENT_TIMESTAMP of the next statement
  res,           \* the last response: [status, rows]
  requests,      \* number of requests answered so far
  \* --- observation of the last request (history) ---
  req,           \* the last request: [method, id, body]
  before,        \* postsTable when the last request arrived
  \* --- browser: router, AuthContext, PostList and PostView state ---
  route,         \* the mounted page: "list" (/posts) or "view" (/posts/:id)
  isAuthenticated,
  listPc,        \* PostList: "constructed" until its mount effect has run
  loading,       \* PostList state `loading`
  error,         \* PostList state `error`
  loads,         \* loadPosts calls awaiting getPosts: [n, query]
  dels,          \* handleDelete calls awaiting deletePost: [id, from, query]
  pvPost,        \* PostView state `post`: <<>> for null, else <<post>>
  pvLoading,     \* PostView state `loading`
  pvError,       \* PostView state `error`
  pvPending,     \* a loadPost call awaits getPost: <<>> or <<id>>
  \* --- observation of the browser (history) ---
  loadCount,     \* loadPosts calls so far
  lastLoad,      \* the loadPosts call that completed last: [n, ok]
  asked,         \* confirmation dialogs shown so far
  lastAnswer,    \* the answer to the last dialog
  deleteCalls,   \* deletePost calls so far
  visits,        \* posts opened so far
  \* --- PostForm component ---
  selectedTags,  \* state `selectedTags`: an array of strings
  newTag,        \* state `newTag`: the text typed into the new-tag input
  formError,     \* state `error`
  formPc,        \* "editing", then "rejected" or "sending"
  sentTags       \* `tags` of the post object sent: <<>> for undefined, else <<array>>

dbVars     == <<tableExists, migRows, schema>>
runVars    == <<pc, executed, pending, idx, stmt, client, err, failSite, runs>>
histVars   == <<ran, marked, startRows, startSchema, prevOutcome, upRuns, failedAt>>
serverVars == <<serverPc, handled, handledPending>>
poolVars   == <<busy>>
derived    == <<allTags, allButton, tagButtons, filteredPosts, sortedPosts,
               featuredPosts, olderPosts, dateTree, seriesGroups>>
viewVars   == <<posts, selectedTag, tz, derived, viewPc>>
apiVars    == <<postsTable, nextId, now, res, requests, req, before>>
listVars   == <<listPc, loading, error, loads>>
postVars   == <<pvPost, pvLoading, pvError, pvPending>>
seenVars   == <<loadCount, lastLoad, asked, lastAnswer, deleteCalls, visits>>
clientVars == <<route, isAuthenticated, listVars, dels, postVars, seenVars>>
formVars   == <<selectedTags, newTag, formError, formPc, sentTags>>
vars       == <<dbVars, runVars, histVars, serverVars, poolVars, viewVars, apiVars,
               clientVars, formVars>>

(* ------------------------------ helpers ------------------------------- *)
Range(s) == {s[i] : i \in 1..Len(s)}

IsPrefix(s, t) == Len(s) <= Len(t) /\ SubSeq(t, 1, Len(s)) = s

Instances == {1, 2}

(* ======================= migration runner ============================= *)

\* const migrations: Migration[] = [ ... ]   (declared order)
migrations == [i \in 1..NumMigrations |-> i]

Declared == Range(migrations)

\* a read of the tracking table that finds no name
getExecutedNone(rows) == {}

\* getExecutedMigrations: new Set(result.rows.map(row => row.name))
getExecutedMigrations(rows) == Range(rows)

\* a filter that yields the pending migrations in reverse order
PendingReversed(ex) ==
  LET NotExecuted(m) == m \notin ex
      pd == SelectSeq(migrations, NotExecuted)
  IN  [i \in 1..Len(pd) |-> pd[Len(pd) + 1 - i]]

\* a faulty filter that keeps every declared migration
PendingAll(ex) == migrations

\* const pending = migrations.filter(m => !executed.has(m.name))
PendingOf(ex) ==
  LET NotExecuted(m) == m \notin ex
  IN  SelectSeq(migrations, NotExecuted)

\* an insert that ignores the UNIQUE constraint
InsertAlways(rows, name) == TRUE

\* name VARCHAR(255) UNIQUE NOT NULL: the INSERT is accepted only for a new name
InsertAccepted(rows, name) == name \notin Range(rows)

\* an insert that stores nothing
InsertNothing(rows, name) == rows

\* INSERT INTO _migrations (name) VALUES ($1)
InsertRow(rows, name) == Append(rows, name)

\* a catch block that swallows the error
CatchSwallow(p, site, e) ==
  /\ pc' = [pc EXCEPT ![p] = "returned"]
  /\ err' = [err EXCEPT ![p] = "none"]
  /\ failSite' = [failSite EXCEPT ![p] = site]

\* catch (error) { console.error(...); throw error; }
CatchRethrow(p, site, e) ==
  /\ pc' = [pc EXCEPT ![p] = "thrown"]
  /\ err' = [err EXCEPT ![p] = e]
  /\ failSite' = [failSite EXCEPT ![p] = site]

\* the migration the for..of loop of instance p is at
Current(p) == pending[p][idx[p]]

\* a run that threw inside migration m's up() or its insert counts against m
NoteFailure(m) == failedAt' = [failedAt EXCEPT ![m] = @ + 1]

\* a caller invokes runMigrations() (a process start)
RunMigrations(p) ==
  /\ pc[p] \in {"idle", "returned", "thrown"}
  /\ runs[p] < MaxRuns
  /\ pc' = [pc EXCEPT ![p] = "ensure"]
  /\ runs' = [runs EXCEPT ![p] = @ + 1]
  /\ executed' = [executed EXCEPT ![p] = {}]
  /\ pending' = [pending EXCEPT ![p] = <<>>]
  /\ idx' = [idx EXCEPT ![p] = 1]
  /\ stmt' = [stmt EXCEPT ![p] = 1]
  /\ err' = [err EXCEPT ![p] = "none"]
  /\ failSite' = [failSite EXCEPT ![p] = "none"]
  /\ ran' = [ran EXCEPT ![p] = <<>>]
  /\ marked' = [marked EXCEPT ![p] = <<>>]
  /\ startRows' = [startRows EXCEPT ![p] = migRows]
  /\ startSchema' = [startSchema EXCEPT ![p] = schema]
  /\ prevOutcome' = [prevOutcome EXCEPT ![p] = pc[p]]
  /\ UNCHANGED <<dbVars, client, upRuns, failedAt, serverVars, clientVars, poolVars, formVars, apiVars, viewVars>>

\* await ensureMigrationsTable(): CREATE TABLE IF NOT EXISTS _migrations
EnsureMigrationsTable(p) ==
  /\ pc[p] = "ensure"
  /\ \/ /\ tableExists' = TRUE
        /\ pc' = [pc EXCEPT ![p] = "getExecuted"]
        /\ UNCHANGED <<err, failSite>>
     \/ /\ CatchRethrow(p, "ensure", "db_error")
        /\ UNCHANGED tableExists
  /\ UNCHANGED <<migRows, schema, executed, pending, idx, stmt, client, runs,
                 histVars, serverVars, clientVars, poolVars, formVars, apiVars, viewVars>>

\* const executed = await getExecutedMigrations(); the filter; the early return
GetExecuted(p) ==
  /\ pc[p] = "getExecuted"
  /\ \/ /\ tableExists
        /\ LET ex == getExecutedMigrations(migRows)
               pd == PendingOf(ex)
           IN  /\ executed' = [executed EXCEPT ![p] = ex]
               /\ pending' = [pending EXCEPT ![p] = pd]
               /\ pc' = [pc EXCEPT ![p] =
                           IF Len(pd) = 0 THEN "returned" ELSE "connect"]
        /\ UNCHANGED <<err, failSite>>
     \/ /\ CatchRethrow(p, "getExecuted", "db_error")
        /\ UNCHANGED <<executed, pending>>
  /\ UNCHANGED <<dbVars, idx, stmt, client, runs, histVars, serverVars, clientVars, poolVars, formVars, apiVars, viewVars>>

\* pooled clients checked out in the process of instance p: the one its
\* running up() holds and, in the server's process, those of its handlers
CheckedOut(p) == (IF client[p] THEN 1 ELSE 0) + (IF p = 1 THEN busy ELSE 0)

\* pool.connect() hands out a client only while fewer than `max` are out
PoolHasRoom(p) == CheckedOut(p) < PoolMax

ReleaseNever(held) == held

\* client.release()
Release(held) == FALSE

\* await migration.up(), first await: const client = await pool.connect()
UpConnect(p) ==
  /\ pc[p] = "connect"
  /\ ran' = [ran EXCEPT ![p] = Append(@, Current(p))]
  /\ upRuns' = [upRuns EXCEPT ![Current(p)] = @ + 1]
  /\ \/ /\ PoolHasRoom(p)
        /\ client' = [client EXCEPT ![p] = TRUE]
        /\ stmt' = [stmt EXCEPT ![p] = 1]
        /\ pc' = [pc EXCEPT ![p] = "query"]
        /\ UNCHANGED <<err, failSite, failedAt>>
     \/ /\ CatchRethrow(p, "up", "connect_timeout")
        /\ NoteFailure(Current(p))
        /\ UNCHANGED <<client, stmt>>
  /\ UNCHANGED <<dbVars, executed, pending, idx, runs, marked, startRows,
                 startSchema, prevOutcome, serverVars, clientVars, poolVars, formVars, apiVars, viewVars>>

\* await client.query(ALTER TABLE / CREATE INDEX ... IF NOT EXISTS), and the
\* finally { client.release() } once the last statement is done or one fails
UpQuery(p) ==
  /\ pc[p] = "query"
  /\ \/ /\ schema' = schema \cup {<<Current(p), stmt[p]>>}
        /\ IF stmt[p] < NumStatements
             THEN /\ stmt' = [stmt EXCEPT ![p] = @ + 1]
                  /\ UNCHANGED <<pc, client>>
             ELSE /\ client' = [client EXCEPT ![p] = Release(@)]
                  /\ pc' = [pc EXCEPT ![p] = "mark"]
                  /\ UNCHANGED stmt
        /\ UNCHANGED <<err, failSite, failedAt>>
     \/ /\ client' = [client EXCEPT ![p] = Release(@)]
        /\ CatchRethrow(p, "up", "db_error")
        /\ NoteFailure(Current(p))
        /\ UNCHANGED <<schema, stmt>>
  /\ UNCHANGED <<tableExists, migRows, executed, pending, idx, runs, ran, marked,
                 startRows, startSchema, prevOutcome, upRuns, serverVars, clientVars, poolVars, formVars, apiVars, viewVars>>

\* await markMigrationExecuted(migration.name); then the next loop iteration
\* or, after the last one, the normal return
MarkMigrationExecuted(p) ==
  /\ pc[p] = "mark"
  /\ \/ /\ InsertAccepted(migRows, Current(p))
        /\ migRows' = InsertRow(migRows, Current(p))
        /\ marked' = [marked EXCEPT ![p] = Append(@, Current(p))]
        /\ idx' = [idx EXCEPT ![p] = @ + 1]
        /\ pc' = [pc EXCEPT ![p] =
                    IF idx[p] = Len(pending[p]) THEN "returned" ELSE "connect"]
        /\ UNCHANGED <<err, failSite, failedAt>>
     \/ /\ ~InsertAccepted(migRows, Current(p))
        /\ CatchRethrow(p, "insert", "unique_violation")
        /\ NoteFailure(Current(p))
        /\ UNCHANGED <<migRows, marked, idx>>
     \/ /\ CatchRethrow(p, "insert", "db_error")
        /\ NoteFailure(Current(p))
        /\ UNCHANGED <<migRows, marked, idx>>
  /\ UNCHANGED <<tableExists, schema, executed, pending, stmt, client, runs, ran,
                 startRows, startSchema, prevOutcome, upRuns, serverVars, clientVars, poolVars, formVars, apiVars, viewVars>>

\* the steps of a run in progress
RunnerStep(p) ==
  \/ EnsureMigrationsTable(p)
  \/ GetExecuted(p)
  \/ UpConnect(p)
  \/ UpQuery(p)
  \/ MarkMigrationExecuted(p)

InitDb ==
  /\ tableExists = FALSE
  /\ migRows = <<>>
  /\ schema = {}

InitRunner ==
  /\ pc = [p \in Instances |-> "idle"]
  /\ executed = [p \in Instances |-> {}]
  /\ pending = [p \in Instances |-> <<>>]
  /\ idx = [p \in Instances |-> 1]
  /\ stmt = [p \in Instances |-> 1]
  /\ client = [p \in Instances |-> FALSE]
  /\ err = [p \in Instances |-> "none"]
  /\ failSite = [p \in Instances |-> "none"]
  /\ runs = [p \in Instances |-> 0]
  /\ ran = [p \in Instances |-> <<>>]
  /\ marked = [p \in Instances |-> <<>>]
  /\ startRows = [p \in Instances |-> <<>>]
  /\ startSchema = [p \in Instances |-> {}]
  /\ prevOutcome = [p \in Instances |-> "idle"]
  /\ upRuns = [m \in Declared |-> 0]
  /\ failedAt = [m \in Declared |-> 0]

\* PostForm just constructed
InitForm ==
  /\ selectedTags = <<>>
  /\ newTag = <<>>
  /\ formError = ""
  /\ formPc = "editing"
  /\ sentTags = <<>>

\* the browser on /posts, PostList just constructed
InitClient ==
  /\ route = "list"
  /\ isAuthenticated = FALSE
  /\ listPc = "constructed"
  /\ loading = TRUE
  /\ error = ""
  /\ loads = {}
  /\ dels = {}
  /\ pvPost = <<>>
  /\ pvLoading = TRUE
  /\ pvError = ""
  /\ pvPending = <<>>
  /\ loadCount = 0
  /\ lastLoad = [n |-> 0, ok |-> TRUE]
  /\ asked = 0
  /\ lastAnswer = FALSE
  /\ deleteCalls = 0
  /\ visits = 0

\* PostList after its first loadPosts call has delivered `posts`
InitClientLoaded ==
  /\ route = "list"
  /\ isAuthenticated = FALSE
  /\ listPc = "live"
  /\ loading = FALSE
  /\ error = ""
  /\ loads = {}
  /\ dels = {}
  /\ pvPost = <<>>
  /\ pvLoading = TRUE
  /\ pvError = ""
  /\ pvPending = <<>>
  /\ loadCount = 1
  /\ lastLoad = [n |-> 1, ok |-> TRUE]
  /\ asked = 0
  /\ lastAnswer = FALSE
  /\ deleteCalls = 0
  /\ visits = 0

\* the posts table of a fresh database; no request answered yet
InitApi ==
  /\ postsTable = {}
  /\ nextId = 1
  /\ now = 0
  /\ res = [status |-> 0, rows |-> <<>>]
  /\ requests = 0
  /\ req = [method |-> "none", id |-> 0, body |-> <<>>]
  /\ before = {}

InitServer ==
  /\ serverPc = "start"
  /\ handled = 0
  /\ handledPending = FALSE
  /\ busy = 0

\* nothing is derived before the first render that gets past `loading`
InitDerived ==
  /\ allTags = <<>>
  /\ allButton = <<>>
  /\ tagButtons = <<>>
  /\ filteredPosts = <<>>
  /\ sortedPosts = <<>>
  /\ featuredPosts = <<>>
  /\ olderPosts = <<>>
  /\ dateTree = <<>>
  /\ seriesGroups = <<>>

InitView ==
  /\ posts = <<>>
  /\ selectedTag = <<>>
  /\ tz = 0
  /\ InitDerived
  /\ viewPc = "mounted"

Init == InitDb /\ InitRunner /\ InitServer /\ InitForm /\ InitApi /\ InitView /\ InitClient

(* =========================== post organizer ========================== *)
(* A post is [id, series, series_order, tags, created_at].  series 0       *)
(* stands for a missing or empty series; series names and tags are         *)
(* numbered in their string order, tag 0 being the empty string.           *)
(* series_order is <<>> when missing and                                   *)
(* <<n>> when set.  The tags array is modelled by the set of its elements  *)
(* (includes and new Set read nothing else).  created_at is <<>> when      *)
(* missing and <<t>> when set, t the instant in ticks since the epoch.     *)

SeriesOrders == {<<>>} \cup {<<n>> : n \in 0..MaxOrder}

\* what a post carries besides its id
PostFields ==
  [series : 0..NumSeries, series_order : SeriesOrders, tags : {{}}, created_at : {<<>>}]

\* a collection getPosts can deliver; the id of a post is its position
WithIds(f) ==
  [i \in DOMAIN f |-> [id |-> i,
                       series |-> f[i].series,
                       series_order |-> f[i].series_order,
                       tags |-> f[i].tags,
                       created_at |-> f[i].created_at]]

\* Array.prototype.sort(compare) as a stable insertion sort: each element is
\* put behind the last element already placed that compare does not rank
\* after it.  compare[<<a, b>>] is the number the comparator returns.
SortBy(arr, compare) ==
  LET Insert(placed, x) ==
        LET notAfter == {i \in 1..Len(placed) : compare[<<placed[i], x>>] <= 0}
            k == IF notAfter = {} THEN 0
                 ELSE CHOOSE i \in notAfter : \A j \in notAfter : j <= i
        IN  SubSeq(placed, 1, k) \o <<x>> \o SubSeq(placed, k + 1, Len(placed))
      sorted[n \in 0..Len(arr)] ==
        IF n = 0 THEN <<>> ELSE Insert(sorted[n - 1], arr[n])
  IN  sorted[Len(arr)]

\* (post.series_order || 0)
OrderOrZero(post) ==
  IF post.series_order = <<>> THEN 0 ELSE post.series_order[1]

\* a comparator with its operands swapped
CompareSeriesOrderDesc(a, b) == OrderOrZero(b) - OrderOrZero(a)

\* (a, b) => (a.series_order || 0) - (b.series_order || 0)
CompareSeriesOrder(a, b) == OrderOrZero(a) - OrderOrZero(b)

\* a comparator that sorts the names descending
CompareNameDesc(a, b) == b.name - a.name

\* (a, b) => a.name.localeCompare(b.name)
CompareName(a, b) == a.name - b.name

\* the keys of seriesMap in insertion order: first occurrence of each series
RECURSIVE SeriesMapKeys(_)
SeriesMapKeys(ps) ==
  IF ps = <<>> THEN <<>>
  ELSE LET front == SeriesMapKeys(SubSeq(ps, 1, Len(ps) - 1))
           name  == ps[Len(ps)].series
       IN  IF name = 0 \/ name \in Range(front) THEN front ELSE Append(front, name)

\* seriesMap.get(name): the posts pushed under that key, in input order
SeriesMapGet(ps, name) ==
  LET InSeries(post) == post.series = name
  IN  SelectSeq(ps, InSeries)

buildSeriesGroups(ps) ==
  LET keys   == SeriesMapKeys(ps)
      result == [k \in 1..Len(keys) |->
                   [name  |-> keys[k],
                    posts |-> LET seriesPosts == SeriesMapGet(ps, keys[k])
                              IN  SortBy(seriesPosts,
                                         [ab \in Range(seriesPosts) \X Range(seriesPosts) |->
                                            CompareSeriesOrder(ab[1], ab[2])])]]
  IN  SortBy(result, [ab \in Range(result) \X Range(result) |-> CompareName(ab[1], ab[2])])

(* ---- tag index, filter and primary feed (PostList render) ---- *)

\* the elements of a set of numbers as an ascending sequence
RECURSIVE Ascending(_)
Ascending(S) ==
  IF S = {} THEN <<>>
  ELSE LET least == CHOOSE x \in S : \A y \in S : x <= y
       IN  <<least>> \o Ascending(S \ {least})

\* posts.flatMap(post => post.tags || [])
RECURSIVE FlatTags(_)
FlatTags(ps) ==
  IF ps = <<>> THEN <<>>
  ELSE FlatTags(SubSeq(ps, 1, Len(ps) - 1)) \o Ascending(ps[Len(ps)].tags)

\* Array.from(new Set(arr)): the first occurrence of each element, in order
RECURSIVE Distinct(_)
Distinct(arr) ==
  IF arr = <<>> THEN <<>>
  ELSE LET front == Distinct(SubSeq(arr, 1, Len(arr) - 1))
           x     == arr[Len(arr)]
       IN  IF x \in Range(front) THEN front ELSE Append(front, x)

\* the default comparator of Array.prototype.sort() on tag strings
CompareTag(a, b) == a - b

\* Array.from(new Set(posts.flatMap(post => post.tags || []))).sort()
AllTagsOf(ps) ==
  LET tags == Distinct(FlatTags(ps))
  IN  SortBy(tags, [ab \in Range(tags) \X Range(tags) |-> CompareTag(ab[1], ab[2])])

\* a count that looks at the first tag of a post only
TagCountFirstOnly(ps, tag) ==
  LET First(post) == post.tags # {} /\ Ascending(post.tags)[1] = tag
  IN  Len(SelectSeq(ps, First))

\* posts.filter(p => p.tags?.includes(tag)).length
TagCount(ps, tag) ==
  LET Includes(post) == tag \in post.tags
  IN  Len(SelectSeq(ps, Includes))

\* the truthiness of a `string | null`: null and the empty string are falsy
Truthy(sel) == sel # <<>> /\ sel[1] # 0

\* a filter that keeps the posts without the tag
FilterByTagInverted(ps, sel) ==
  LET Excludes(post) == sel[1] \notin post.tags
  IN  IF Truthy(sel) THEN SelectSeq(ps, Excludes) ELSE ps

\* selectedTag ? posts.filter(post => post.tags?.includes(selectedTag)) : posts
FilterByTag(ps, sel) ==
  LET Includes(post) == sel[1] \in post.tags
  IN  IF Truthy(sel) THEN SelectSeq(ps, Includes) ELSE ps

\* new Date(post.created_at || 0).getTime()
TimeOf(post) ==
  IF post.created_at = <<>> THEN 0 ELSE post.created_at[1]

\* a comparator that sorts the oldest first
CompareCreatedAsc(a, b) == TimeOf(a) - TimeOf(b)

\* (a, b) => new Date(b.created_at || 0).getTime() - new Date(a.created_at || 0).getTime()
CompareCreatedDesc(a, b) == TimeOf(b) - TimeOf(a)

\* [...filteredPosts].sort((a, b) => dateB - dateA)
SortByCreatedDesc(ps) ==
  SortBy(ps, [ab \in Range(ps) \X Range(ps) |-> CompareCreatedDesc(ab[1], ab[2])])

\* a slice that starts one element early
SliceOffByOne(arr, from, to) ==
  SubSeq(arr, from, IF to < Len(arr) THEN to + 1 ELSE Len(arr))

\* arr.slice(from - 1, to): the elements at positions from..to that exist
Slice(arr, from, to) ==
  SubSeq(arr, from, IF to < Len(arr) THEN to ELSE Len(arr))

(* ---- date tree (buildDateTree) ---- *)

TicksPerYear == MonthsPerYear * TicksPerMonth

\* the instant of a post on the browser's local clock
LocalTime(post, offset) == TimeOf(post) + offset

\* new Date(post.created_at || 0).getFullYear()
YearOf(post, offset) == EpochYear + (LocalTime(post, offset) \div TicksPerYear)

\* new Date(post.created_at || 0).getMonth()
MonthOf(post, offset) == (LocalTime(post, offset) \div TicksPerMonth) % MonthsPerYear

\* the keys of yearMap in insertion order
YearMapKeys(ps, offset) ==
  Distinct([i \in 1..Len(ps) |-> YearOf(ps[i], offset)])

\* the keys of yearMap.get(year) in insertion order
MonthMapKeys(ps, offset, year) ==
  LET InYear(post) == YearOf(post, offset) = year
      inYear == SelectSeq(ps, InYear)
  IN  Distinct([i \in 1..Len(inYear) |-> MonthOf(inYear[i], offset)])

\* a bucket that drops the posts without created_at
MonthMapGetDated(ps, offset, year, month) ==
  LET InBucket(post) ==
        /\ post.created_at # <<>>
        /\ YearOf(post, offset) = year
        /\ MonthOf(post, offset) = month
  IN  SelectSeq(ps, InBucket)

\* yearMap.get(year).get(month): the posts pushed there, in input order
MonthMapGet(ps, offset, year, month) ==
  LET InBucket(post) == YearOf(post, offset) = year /\ MonthOf(post, offset) = month
  IN  SelectSeq(ps, InBucket)

\* a comparator that sorts the months ascending
CompareMonthAsc(a, b) == a.month - b.month

\* months.sort((a, b) => b.month - a.month)
CompareMonth(a, b) == b.month - a.month

\* result.sort((a, b) => b.year - a.year)
CompareYear(a, b) == b.year - a.year

buildDateTree(ps, offset) ==
  LET years == YearMapKeys(ps, offset)
      MonthsOf(year) ==
        LET keys   == MonthMapKeys(ps, offset, year)
            months == [k \in 1..Len(keys) |->
                         [month |-> keys[k],
                          posts |-> SortByCreatedDesc(MonthMapGet(ps, offset, year, keys[k]))]]
        IN  SortBy(months,
                   [ab \in Range(months) \X Range(months) |-> CompareMonth(ab[1], ab[2])])
      result == [y \in 1..Len(years) |-> [year |-> years[y], months |-> MonthsOf(years[y])]]
  IN  SortBy(result, [ab \in Range(result) \X Range(result) |-> CompareYear(ab[1], ab[2])])

\* which array filteredPosts is: `posts` itself when no tag is selected, else
\* the new array filter() returns
FilteredArray(sel) == IF Truthy(sel) THEN "new" ELSE "posts"

SpreadAlias(array) == array

\* [...filteredPosts]: a new array
Spread(array) == "new"

\* the array in state `posts` after the derivations: sort() reorders the
\* array it is called on, which for the feed is the spread copy; the sorts
\* of allTags, of the month buckets and of the series groups are called on
\* arrays built during the derivation
PostsAfterDerive(ps, sel) ==
  IF Spread(FilteredArray(sel)) = "posts"
    THEN SortByCreatedDesc(FilterByTag(ps, sel))
  ELSE ps

\* a render of PostList once the posts are loaded
Render ==
  /\ viewPc = "mounted"
  /\ LET tags     == AllTagsOf(posts)
         filtered == FilterByTag(posts, selectedTag)
         sorted   == SortByCreatedDesc(filtered)
     IN  /\ allTags' = tags
         /\ allButton' = IF Len(tags) > 0 THEN <<Len(posts)>> ELSE <<>>
         /\ tagButtons' = [k \in 1..Len(tags) |->
                             [tag |-> tags[k], count |-> TagCount(posts, tags[k])]]
         /\ filteredPosts' = filtered
         /\ sortedPosts' = sorted
         /\ featuredPosts' = Slice(sorted, 1, FeaturedCount)
         /\ olderPosts' = Slice(sorted, FeaturedCount + 1, Len(sorted))
  /\ dateTree' = buildDateTree(posts, tz)
  /\ seriesGroups' = buildSeriesGroups(posts)
  /\ posts' = PostsAfterDerive(posts, selectedTag)
  /\ viewPc' = "rendered"
  /\ UNCHANGED <<selectedTag, tz, dbVars, runVars, histVars, serverVars, clientVars,
                 poolVars, formVars, apiVars>>

\* a click on the "All" button or on a tag button: setSelectedTag, and the
\* component renders again
SelectTag ==
  /\ viewPc = "rendered"
  /\ \E sel \in {<<>>} \cup {<<allTags[k]>> : k \in 1..Len(allTags)} :
       /\ allTags # <<>>
       /\ sel # selectedTag
       /\ selectedTag' = sel
  /\ viewPc' = "mounted"
  /\ UNCHANGED <<posts, tz, derived, dbVars, runVars, histVars, serverVars, clientVars, poolVars, formVars, apiVars>>

InitLoaded ==
  /\ \E n \in 0..MaxPosts : \E f \in [1..n -> PostFields] : posts = WithIds(f)
  /\ selectedTag = <<>>
  /\ tz = 0
  /\ InitDerived
  /\ viewPc = "mounted"


\* the instants created_at is drawn from: around the start and the end of
\* each of the first years
SampleTimes ==
  UNION {{y * TicksPerYear, y * TicksPerYear + 1,
          y * TicksPerYear + TicksPerMonth, y * TicksPerYear + TicksPerMonth + 1,
          (y + 1) * TicksPerYear - 1} : y \in 0..MaxYear}

TaggedFields ==
  [series : {0}, series_order : {<<>>}, tags : SUBSET (0..NumTags), created_at : {<<>>}]

DatedFields ==
  [series : {0}, series_order : {<<>>}, tags : {{}},
   created_at : {<<>>} \cup {<<t>> : t \in SampleTimes}]

FeedFields ==
  [series : {0}, series_order : {<<>>}, tags : {{}, {1}},
   created_at : {<<>>} \cup {<<t>> : t \in 0..MaxFeedTime}]

\* posts carrying tags, no tag selected yet
InitTagged ==
  /\ \E n \in 0..MaxPosts : \E f \in [1..n -> TaggedFields] : posts = WithIds(f)
  /\ selectedTag = <<>>
  /\ tz = 0
  /\ InitDerived
  /\ viewPc = "mounted"

\* posts carrying creation times, seen from a browser west of, at, or east of UTC
InitDated ==
  /\ \E n \in 0..MaxPosts : \E f \in [1..n -> DatedFields] : posts = WithIds(f)
  /\ selectedTag = <<>>
  /\ tz \in {-1, 0, 1}
  /\ InitDerived
  /\ viewPc = "mounted"

\* enough posts for the feed to have additional posts
InitFeed ==
  /\ \E n \in 0..MaxFeedPosts : \E f \in [1..n -> FeedFields] : posts = WithIds(f)
  /\ selectedTag = <<>>
  /\ tz = 0
  /\ InitDerived
  /\ viewPc = "mounted"

(* ========================= server start-up =========================== *)

\* every declared migration is recorded in _migrations
AllRecorded == Declared \subseteq Range(migRows)

\* app.listen(PORT, ...): the socket is bound and requests are accepted
Listen ==
  /\ serverPc = "start"
  /\ serverPc' = "listening"
  /\ UNCHANGED <<handled, handledPending, dbVars, runVars, histVars, viewVars, apiVars, clientVars, poolVars, formVars>>

\* the listen callback: await testConnection(), which releases the client
\* as soon as pool.connect() delivers it, and reports and swallows a failed
\* pool.connect()
TestConnection ==
  /\ serverPc = "listening"
  /\ \E ok \in {b \in BOOLEAN : b => PoolHasRoom(1)} :
       serverPc' = IF ok THEN "connected" ELSE "noDatabase"
  /\ UNCHANGED <<handled, handledPending, dbVars, runVars, histVars, viewVars, apiVars, clientVars, poolVars, formVars>>

\* a request reaches one of the routes mounted on app
HandleRequest ==
  /\ serverPc \in {"listening", "connected", "noDatabase"}
  /\ handled < MaxRequests
  /\ handled' = handled + 1
  /\ handledPending' = (handledPending \/ ~AllRecorded)
  /\ UNCHANGED <<serverPc, dbVars, runVars, histVars, viewVars, apiVars, clientVars, poolVars, formVars>>

Server == Listen \/ TestConnection \/ HandleRequest

\* a handler's pool.query(...) checks a client out for its statement ...
PoolQueryStart ==
  /\ serverPc \in {"listening", "connected", "noDatabase"}
  /\ PoolHasRoom(1)
  /\ busy' = busy + 1
  /\ UNCHANGED <<dbVars, runVars, histVars, serverVars, formVars, viewVars, apiVars, clientVars>>

\* ... and releases it when the statement is done or has failed
PoolQueryEnd ==
  /\ busy > 0
  /\ busy' = busy - 1
  /\ UNCHANGED <<dbVars, runVars, histVars, serverVars, formVars, viewVars, apiVars, clientVars>>

(* ============================= posts API ============================= *)
(* A column or body value is <<>> for NULL / null and <<v>> otherwise.     *)
(* Strings are numbered, 0 being the empty string; published is 0 for      *)
(* false and 1 for true; a tags array is numbered, 0 being the empty       *)
(* array.  A request body is a function from the keys it carries to their  *)
(* values, as the parsed JSON object is.                                   *)
Fields == {"title", "slug", "content", "excerpt", "category", "tags", "published"}

NULL == <<>>

\* marks, in the enumeration of bodies, a key the body does not carry
Missing == <<-1>>

\* the body carrying the keys of `full` that are not marked missing
Body(full) == [k \in {f \in Fields : full[f] # Missing} |-> full[k]]

\* destructuring req.body: an absent key reads undefined, which the
\* database driver sends as NULL, as it does null
Param(body, k) == IF k \in DOMAIN body THEN body[k] ELSE NULL

\* JavaScript `!x` for undefined, null, "" and false
Falsy(x) == x = NULL \/ x = <<0>>

PublishedAsGiven(x) == x

\* `published || false`
PublishedOrFalse(x) == IF Falsy(x) THEN <<0>> ELSE x

CoalesceNew(x, stored) == x

\* COALESCE($n, column)
Coalesce(x, stored) == IF x # NULL THEN x ELSE stored

UniqueViolationNever(rows, row) == FALSE

\* UNIQUE (slug): some other row holds the slug of `row`
UniqueViolation(rows, row) ==
  \E r \in rows : r.id # row.id /\ r.slug = row.slug

\* WHERE id = $n
WhereId(rows, id) == {r \in rows : r.id = id}

DeleteAll(rows, id) == {}

\* the rows left by DELETE FROM posts WHERE id = $1
DeleteFrom(rows, id) == rows \ WhereId(rows, id)

\* the row INSERT INTO posts ... VALUES ($1 .. $7) builds
InsertedRow(body) ==
  [id         |-> nextId,
   title      |-> Param(body, "title"),
   slug       |-> Param(body, "slug"),
   content    |-> Param(body, "content"),
   excerpt    |-> Param(body, "excerpt"),
   category   |-> Param(body, "category"),
   tags       |-> Param(body, "tags"),
   published  |-> PublishedOrFalse(Param(body, "published")),
   created_at |-> now,
   updated_at |-> now]

UpdatedRowStale(row, body) ==
  [id         |-> row.id,
   title      |-> Coalesce(Param(body, "title"), row.title),
   slug       |-> Coalesce(Param(body, "slug"), row.slug),
   content    |-> Coalesce(Param(body, "content"), row.content),
   excerpt    |-> Coalesce(Param(body, "excerpt"), row.excerpt),
   category   |-> Coalesce(Param(body, "category"), row.category),
   tags       |-> Coalesce(Param(body, "tags"), row.tags),
   published  |-> Coalesce(Param(body, "published"), row.published),
   created_at |-> row.created_at,
   updated_at |-> row.updated_at]

\* the row UPDATE posts SET ... makes of `row`
UpdatedRow(row, body) ==
  [id         |-> row.id,
   title      |-> Coalesce(Param(body, "title"), row.title),
   slug       |-> Coalesce(Param(body, "slug"), row.slug),
   content    |-> Coalesce(Param(body, "content"), row.content),
   excerpt    |-> Coalesce(Param(body, "excerpt"), row.excerpt),
   category   |-> Coalesce(Param(body, "category"), row.category),
   tags       |-> Coalesce(Param(body, "tags"), row.tags),
   published  |-> Coalesce(Param(body, "published"), row.published),
   created_at |-> row.created_at,
   updated_at |-> now]

Respond(status, rows) == res' = [status |-> status, rows |-> rows]

\* a request arrives: note it, and let the clock advance
Arrive(method, id, body) ==
  /\ requests < MaxApiRequests
  /\ requests' = requests + 1
  /\ now' = now + 1
  /\ req' = [method |-> method, id |-> id, body |-> body]
  /\ before' = postsTable

\* POST /api/posts; dbOk is false when pool.query fails for a reason other
\* than the slug constraint
CreatePost(body, dbOk) ==
  /\ Arrive("POST", 0, body)
  /\ IF \/ Falsy(Param(body, "title"))
        \/ Falsy(Param(body, "slug"))
        \/ Falsy(Param(body, "content"))
       THEN /\ Respond(400, <<>>)
            /\ UNCHANGED <<postsTable, nextId>>
     ELSE IF ~dbOk
       THEN /\ Respond(500, <<>>)
            /\ UNCHANGED <<postsTable, nextId>>
     ELSE IF UniqueViolation(postsTable, InsertedRow(body))
       THEN /\ Respond(409, <<>>)
            /\ nextId' = nextId + 1
            /\ UNCHANGED postsTable
     ELSE /\ postsTable' = postsTable \cup {InsertedRow(body)}
          /\ nextId' = nextId + 1
          /\ Respond(201, <<InsertedRow(body)>>)
  /\ UNCHANGED <<dbVars, runVars, histVars, serverVars, clientVars, poolVars, formVars, viewVars>>

\* PUT /api/posts/:id
UpdatePost(id, body, dbOk) ==
  /\ Arrive("PUT", id, body)
  /\ IF ~dbOk
       THEN /\ Respond(500, <<>>)
            /\ UNCHANGED postsTable
     ELSE IF WhereId(postsTable, id) = {}
       THEN /\ Respond(404, <<>>)
            /\ UNCHANGED postsTable
     ELSE LET row == CHOOSE r \in WhereId(postsTable, id) : TRUE
              new == UpdatedRow(row, body)
          IN  IF UniqueViolation(postsTable, new)
                THEN /\ Respond(409, <<>>)
                     /\ UNCHANGED postsTable
              ELSE /\ postsTable' = (postsTable \ {row}) \cup {new}
                   /\ Respond(200, <<new>>)
  /\ UNCHANGED <<nextId, dbVars, runVars, histVars, serverVars, clientVars, poolVars, formVars, viewVars>>

\* DELETE /api/posts/:id
DeletePost(id, dbOk) ==
  /\ Arrive("DELETE", id, <<>>)
  /\ IF ~dbOk
       THEN /\ Respond(500, <<>>)
            /\ UNCHANGED postsTable
     ELSE IF WhereId(postsTable, id) = {}
       THEN /\ Respond(404, <<>>)
            /\ UNCHANGED postsTable
     ELSE /\ postsTable' = DeleteFrom(postsTable, id)
          /\ Respond(200, <<CHOOSE r \in WhereId(postsTable, id) : TRUE>>)
  /\ UNCHANGED <<nextId, dbVars, runVars, histVars, serverVars, clientVars, poolVars, formVars, viewVars>>

WherePublishedAny(rows, query) == rows

\* the WHERE clause GET /api/posts builds from req.query: none without a
\* published parameter, else published = (published === 'true')
WherePublished(rows, query) ==
  IF "published" \notin DOMAIN query THEN rows
  ELSE {r \in rows : r.published = (IF query["published"] = "true" THEN <<1>> ELSE <<0>>)}

\* ORDER BY created_at DESC: the orders the database may deliver `rows` in
OrderByCreatedAtDesc(rows) ==
  {s \in [1..Cardinality(rows) -> rows] :
     /\ \A i, j \in DOMAIN s : i < j => s[i] # s[j] /\ s[i].created_at >= s[j].created_at}

\* query strings of GET /api/posts
Queries == {<<>>} \cup {[published |-> v] : v \in {"true", "false"}}

\* GET /api/posts
ListPosts(query, dbOk) ==
  /\ Arrive("GET", 0, query)
  /\ IF ~dbOk
       THEN Respond(500, <<>>)
     ELSE \E s \in OrderByCreatedAtDesc(WherePublished(postsTable, query)) :
            Respond(200, s)
  /\ UNCHANGED <<postsTable, nextId, dbVars, runVars, histVars, serverVars, clientVars, poolVars, formVars, viewVars>>

\* bodies of the requests of a session: creation with each required field
\* missing, empty or given; updates of title, slug and published
CreateBodies ==
  {Body(full) : full \in [title : {Missing, <<0>>, <<1>>},
                          slug : {Missing, <<0>>, <<1>>, <<2>>},
                          content : {Missing, <<0>>, <<1>>},
                          excerpt : {Missing},
                          category : {Missing},
                          tags : {Missing},
                          published : {Missing, <<1>>}]}

UpdateBodies ==
  {Body(full) : full \in [title : {Missing, <<2>>},
                          slug : {Missing, <<1>>, <<2>>},
                          content : {Missing},
                          excerpt : {Missing},
                          category : {Missing},
                          tags : {Missing},
                          published : {Missing, <<0>>}]}

\* bodies of one update: every field absent, null or given
PartialBodies ==
  {Body(full) : full \in [title : {Missing, NULL, <<2>>},
                          slug : {Missing, NULL, <<1>>, <<2>>},
                          content : {Missing, <<2>>},
                          excerpt : {Missing, NULL, <<2>>},
                          category : {Missing, NULL, <<2>>},
                          tags : {Missing, NULL, <<0>>},
                          published : {Missing, NULL, <<1>>}]}

\* ids a request may name: those the sequence has handed out and the next
RequestIds == 1..nextId

\* two posts stored by earlier requests, with and without the optional fields
InitStored ==
  /\ postsTable =
       {[id |-> 1, title |-> <<1>>, slug |-> <<1>>, content |-> <<1>>,
         excerpt |-> <<1>>, category |-> NULL, tags |-> <<1>>,
         published |-> <<0>>, created_at |-> 0, updated_at |-> 0],
        [id |-> 2, title |-> <<1>>, slug |-> <<2>>, content |-> <<1>>,
         excerpt |-> NULL, category |-> <<1>>, tags |-> NULL,
         published |-> <<1>>, created_at |-> 1, updated_at |-> 1]}
  /\ nextId = 3
  /\ now = 2
  /\ res = [status |-> 201, rows |-> <<>>]
  /\ requests = MaxApiRequests - 1
  /\ req = [method |-> "none", id |-> 0, body |-> <<>>]
  /\ before = {}

\* one instance, started again and again: the single-instance deployment
Next == RunMigrations(1) \/ RunnerStep(1)

Spec == Init /\ [][Next]_vars

\* two instances against the same database
NextConc ==
  \E p \in Instances :
    \/ runs[p] < MaxConcRuns /\ RunMigrations(p)
    \/ RunnerStep(p)

SpecConc == Init /\ [][NextConc]_vars

\* the server process next to invocations of the exported runMigrations
NextStartup == Server \/ RunMigrations(1) \/ RunnerStep(1)

SpecStartup == Init /\ [][NextStartup]_vars

\* the server's handlers and runMigrations sharing the process's pool
NextPool == Server \/ PoolQueryStart \/ PoolQueryEnd \/ RunMigrations(1) \/ RunnerStep(1)

SpecPool == Init /\ [][NextPool]_vars

\* PostList rendering a loaded collection
InitViews ==
  InitDb /\ InitRunner /\ InitServer /\ InitForm /\ InitApi /\ InitLoaded /\ InitClientLoaded

NextViews == Render

SpecViews == InitViews /\ [][NextViews]_vars

\* PostList rendering tagged posts under a tag filter
InitTags ==
  InitDb /\ InitRunner /\ InitServer /\ InitForm /\ InitApi /\ InitTagged /\ InitClientLoaded

NextTags == Render \/ SelectTag

SpecTags == InitTags /\ [][NextTags]_vars

\* PostList rendering dated posts
InitDates ==
  InitDb /\ InitRunner /\ InitServer /\ InitForm /\ InitApi /\ InitDated /\ InitClientLoaded

SpecDates == InitDates /\ [][NextViews]_vars

\* PostList rendering the primary feed
InitFeeds ==
  InitDb /\ InitRunner /\ InitServer /\ InitForm /\ InitApi /\ InitFeed /\ InitClientLoaded

SpecFeed == InitFeeds /\ [][NextTags]_vars

(* ============================== browser ============================== *)
(* PostList and PostView against the posts API.  An await is a step of its *)
(* own: the call is noted as pending and a later step delivers its result. *)
(* The server's part of a request is taken from the route it reaches.      *)

\* the Post the client reads from a row: the id, tags as the set of the
\* array's elements, created_at, published; series fields are never set
\* by the routes
AsPost(row) ==
  [id |-> row.id,
   series |-> 0,
   series_order |-> <<>>,
   tags |-> IF row.tags = NULL \/ row.tags = <<0>> THEN {} ELSE {row.tags[1]},
   created_at |-> <<row.created_at>>,
   published |-> row.published = <<1>>]

\* getPosts(isAuthenticated ? undefined : true): the query string sent
QueryFor(auth) == IF auth THEN <<>> ELSE [published |-> "true"]

\* the responses GET /api/posts may give to `query`, as Post arrays
Fetched(query) ==
  {[i \in DOMAIN s |-> AsPost(s[i])] :
     s \in OrderByCreatedAtDesc(WherePublished(postsTable, query))}

\* loadPosts up to its await: setLoading(true), setError(''), getPosts(...)
StartLoad(query) ==
  /\ loadCount < MaxLoads
  /\ loadCount' = loadCount + 1
  /\ loading' = TRUE
  /\ error' = ""
  /\ loads' = loads \cup {[n |-> loadCount + 1, query |-> query]}

\* a PostList just constructed: the initial values of its state
FreshList ==
  /\ posts' = <<>>
  /\ selectedTag' = <<>>
  /\ allTags' = <<>>
  /\ allButton' = <<>>
  /\ tagButtons' = <<>>
  /\ filteredPosts' = <<>>
  /\ sortedPosts' = <<>>
  /\ featuredPosts' = <<>>
  /\ olderPosts' = <<>>
  /\ dateTree' = <<>>
  /\ seriesGroups' = <<>>
  /\ viewPc' = "mounted"
  /\ listPc' = "constructed"
  /\ loading' = TRUE
  /\ error' = ""
  /\ loads' = {}

\* useEffect(() => { loadPosts() }, [isAuthenticated]) after the first render
MountEffect ==
  /\ route = "list"
  /\ listPc = "constructed"
  /\ listPc' = "live"
  /\ StartLoad(QueryFor(isAuthenticated))
  /\ UNCHANGED <<route, isAuthenticated, dels, postVars, lastLoad, asked, lastAnswer,
                 deleteCalls, visits, viewVars, dbVars, runVars, histVars, serverVars, poolVars, formVars,
                 apiVars>>

\* getPosts settles for the loadPosts call `call`: setPosts(data) or
\* setError(...), then finally setLoading(false)
LoadSettle(call, ok) ==
  /\ route = "list"
  /\ call \in loads
  /\ loads' = loads \ {call}
  /\ IF ok
       THEN /\ \E data \in Fetched(call.query) : posts' = data
            /\ UNCHANGED error
     ELSE /\ error' = "Failed to load posts. Is the server running?"
          /\ UNCHANGED posts
  /\ loading' = FALSE
  /\ lastLoad' = [n |-> call.n, ok |-> ok]
  /\ viewPc' = "mounted"
  /\ UNCHANGED <<route, isAuthenticated, listPc, dels, postVars, loadCount, asked,
                 lastAnswer, deleteCalls, visits, selectedTag, tz, derived, dbVars,
                 runVars, histVars, serverVars, poolVars, formVars, apiVars>>

\* PostList renders past `if (loading)` and `if (error)`
RenderList ==
  /\ route = "list"
  /\ ~loading
  /\ error = ""
  /\ Render

\* the Retry button of the error render: onClick={loadPosts}
Retry ==
  /\ route = "list"
  /\ ~loading
  /\ error # ""
  /\ StartLoad(QueryFor(isAuthenticated))
  /\ UNCHANGED <<route, isAuthenticated, listPc, dels, postVars, lastLoad, asked,
                 lastAnswer, deleteCalls, visits, viewVars, dbVars, runVars, histVars,
                 serverVars, poolVars, formVars, apiVars>>

\* the Logout button of the navigation bar; a live PostList runs its
\* effect again because isAuthenticated changed
Logout ==
  /\ isAuthenticated
  /\ isAuthenticated' = FALSE
  /\ IF route = "list" /\ listPc = "live"
       THEN /\ StartLoad(QueryFor(FALSE))
            /\ viewPc' = "mounted"
     ELSE UNCHANGED <<loadCount, loading, error, loads, viewPc>>
  /\ UNCHANGED <<route, listPc, dels, postVars, lastLoad, asked, lastAnswer,
                 deleteCalls, visits, posts, selectedTag, tz, derived, dbVars, runVars,
                 histVars, serverVars, poolVars, formVars, apiVars>>

ConfirmedAnyway(answer) == TRUE

\* window.confirm(...): true when the user presses OK
Confirmed(answer) == answer

\* the dialog of handleDelete and, when confirmed, the call of deletePost
AskAndDelete(id, from, answer) ==
  /\ asked < MaxDialogs
  /\ asked' = asked + 1
  /\ lastAnswer' = answer
  /\ IF Confirmed(answer)
       THEN /\ dels' = dels \cup {[id |-> id, from |-> from,
                                   query |-> QueryFor(isAuthenticated)]}
            /\ deleteCalls' = deleteCalls + 1
     ELSE UNCHANGED <<dels, deleteCalls>>

\* PostList.handleDelete, from a Delete button of the rendered list
ListHandleDelete(id, answer) ==
  /\ route = "list"
  /\ ~loading /\ error = "" /\ viewPc = "rendered"
  /\ isAuthenticated
  /\ \E k \in 1..Len(posts) : posts[k].id = id
  /\ \A d \in dels : d.id # id
  /\ AskAndDelete(id, "list", answer)
  /\ UNCHANGED <<route, isAuthenticated, listVars, postVars, loadCount, lastLoad,
                 visits, viewVars, dbVars, runVars, histVars, serverVars, poolVars, formVars, apiVars>>

\* what PostView renders
PostViewShows ==
  IF pvLoading THEN "loading"
  ELSE IF pvError # "" \/ pvPost = <<>> THEN "error"
  ELSE IF ~isAuthenticated /\ ~pvPost[1].published THEN "unavailable"
  ELSE "content"

\* PostView.handleDelete, from the Delete button of the rendered post
ViewHandleDelete(answer) ==
  /\ route = "view"
  /\ PostViewShows = "content"
  /\ isAuthenticated
  /\ pvPost # <<>>
  /\ \A d \in dels : d.id # pvPost[1].id
  /\ AskAndDelete(pvPost[1].id, "view", answer)
  /\ UNCHANGED <<route, isAuthenticated, listVars, postVars, loadCount, lastLoad,
                 visits, viewVars, dbVars, runVars, histVars, serverVars, poolVars, formVars, apiVars>>

\* deletePost settles: the server ran DELETE /api/posts/:id; on success
\* PostList reloads and PostView navigates to /posts, else alert(...)
DeleteSettle(d, dbOk) ==
  /\ d \in dels
  /\ dels' = dels \ {d}
  /\ LET done == dbOk /\ WhereId(postsTable, d.id) # {}
     IN  /\ postsTable' = IF done THEN DeleteFrom(postsTable, d.id) ELSE postsTable
         /\ IF done /\ d.from = "list" /\ route = "list"
              THEN /\ StartLoad(d.query)
                   /\ UNCHANGED <<route, listPc, viewVars>>
            ELSE IF done /\ d.from = "view" /\ route = "view"
              THEN /\ route' = "list"
                   /\ FreshList
                   /\ UNCHANGED <<loadCount, tz>>
            ELSE UNCHANGED <<route, listVars, loadCount, viewVars>>
  /\ UNCHANGED <<isAuthenticated, postVars, lastLoad, asked, lastAnswer, deleteCalls,
                 visits, nextId, now, res, requests, req, before, dbVars, runVars,
                 histVars, serverVars, poolVars, formVars>>

\* a link of the rendered list opens /posts/:id: PostList unmounts, PostView
\* mounts and its effect calls loadPost
OpenPost(id) ==
  /\ route = "list"
  /\ ~loading /\ error = "" /\ viewPc = "rendered"
  /\ dels = {}
  /\ visits < MaxVisits
  /\ \E k \in 1..Len(posts) : posts[k].id = id
  /\ visits' = visits + 1
  /\ route' = "view"
  /\ loads' = {}
  /\ pvPost' = <<>>
  /\ pvLoading' = TRUE
  /\ pvError' = ""
  /\ pvPending' = <<id>>
  /\ UNCHANGED <<isAuthenticated, listPc, loading, error, dels, loadCount, lastLoad,
                 asked, lastAnswer, deleteCalls, viewVars, dbVars, runVars, histVars,
                 serverVars, poolVars, formVars, apiVars>>

\* getPost settles: setPost(data) or setError(...), then setLoading(false)
PostSettle(dbOk) ==
  /\ route = "view"
  /\ pvPending # <<>>
  /\ pvPending' = <<>>
  /\ IF dbOk /\ WhereId(postsTable, pvPending[1]) # {}
       THEN /\ pvPost' = <<AsPost(CHOOSE r \in WhereId(postsTable, pvPending[1]) : TRUE)>>
            /\ UNCHANGED pvError
     ELSE /\ pvError' = "Failed to load post"
          /\ UNCHANGED pvPost
  /\ pvLoading' = FALSE
  /\ UNCHANGED <<route, isAuthenticated, listVars, dels, seenVars, viewVars, dbVars,
                 runVars, histVars, serverVars, poolVars, formVars, apiVars>>

\* the Back to Posts link of PostView: PostList mounts anew
BackToPosts ==
  /\ route = "view"
  /\ dels = {}
  /\ route' = "list"
  /\ pvPending' = <<>>
  /\ FreshList
  /\ UNCHANGED <<isAuthenticated, dels, pvPost, pvLoading, pvError, seenVars, tz,
                 dbVars, runVars, histVars, serverVars, poolVars, formVars, apiVars>>

\* a browser on /posts, signed in or not, against a table holding a draft
\* and a published post
InitBrowser ==
  /\ route = "list"
  /\ isAuthenticated \in BOOLEAN
  /\ listPc = "constructed"
  /\ loading = TRUE
  /\ error = ""
  /\ loads = {}
  /\ dels = {}
  /\ pvPost = <<>>
  /\ pvLoading = TRUE
  /\ pvError = ""
  /\ pvPending = <<>>
  /\ loadCount = 0
  /\ lastLoad = [n |-> 0, ok |-> TRUE]
  /\ asked = 0
  /\ lastAnswer = FALSE
  /\ deleteCalls = 0
  /\ visits = 0

InitBrowsing ==
  InitDb /\ InitRunner /\ InitServer /\ InitForm /\ InitStored /\ InitView /\ InitBrowser

NextBrowsing ==
  \/ MountEffect
  \/ \E call \in loads : \E ok \in BOOLEAN : LoadSettle(call, ok)
  \/ RenderList
  \/ Retry
  \/ Logout
  \/ \E id \in 1..nextId : \E answer \in BOOLEAN : ListHandleDelete(id, answer)
  \/ \E answer \in BOOLEAN : ViewHandleDelete(answer)
  \/ \E d \in dels : \E dbOk \in BOOLEAN : DeleteSettle(d, dbOk)
  \/ \E id \in 1..nextId : OpenPost(id)
  \/ \E dbOk \in BOOLEAN : PostSettle(dbOk)
  \/ BackToPosts

SpecBrowsing == InitBrowsing /\ [][NextBrowsing]_vars

(* ============================== PostForm ============================= *)
(* A string is the sequence of its characters.                             *)

\* String.prototype.toLowerCase, character by character
LowerChar(c) == IF c = "A" THEN "a" ELSE c

ToLowerCase(str) == [i \in DOMAIN str |-> LowerChar(str[i])]

\* String.prototype.trim
RECURSIVE Trim(_)
Trim(str) ==
  IF str = <<>> THEN str
  ELSE IF Head(str) = " " THEN Trim(Tail(str))
  ELSE IF str[Len(str)] = " " THEN Trim(SubSeq(str, 1, Len(str) - 1))
  ELSE str

SameExactly(t, typed) == t = Trim(typed)

\* t.toLowerCase() === normalizedNewTag
SameIgnoringCase(t, typed) == ToLowerCase(t) = ToLowerCase(Trim(typed))

\* finalTags: the selected tags and, unless empty or already among them,
\* the trimmed new tag
FinalTags(selected, typed) ==
  IF Trim(typed) # <<>> /\ ~\E i \in DOMAIN selected : SameIgnoringCase(selected[i], typed)
    THEN Append(selected, Trim(typed))
  ELSE selected

\* handleSubmit up to the request; `required` tells whether title, slug and
\* content are all filled in
HandleSubmit(required) ==
  /\ formPc = "editing"
  /\ IF ~required
       THEN /\ formError' = "Title, slug, and content are required"
            /\ formPc' = "rejected"
            /\ UNCHANGED sentTags
     ELSE /\ formError' = ""
          /\ formPc' = "sending"
          /\ sentTags' = LET finalTags == FinalTags(selectedTags, newTag)
                         IN  IF Len(finalTags) > 0 THEN <<finalTags>> ELSE <<>>
  /\ UNCHANGED <<selectedTags, newTag, dbVars, runVars, histVars, serverVars, poolVars,
                 viewVars, apiVars, clientVars>>

\* strings of up to MaxTagLen characters
Strings(chars) == UNION {[1..n -> chars] : n \in 0..MaxTagLen}

\* the form as the user left it: tags picked, a new tag typed or not
InitFilled ==
  /\ \E n \in 0..MaxSelected :
       selectedTags \in [1..n -> Strings({"a", "A"}) \ {<<>>}]
  /\ newTag \in Strings({"a", "A", " "})
  /\ formError = ""
  /\ formPc = "editing"
  /\ sentTags = <<>>

InitSubmit ==
  InitDb /\ InitRunner /\ InitServer /\ InitApi /\ InitView /\ InitClient /\ InitFilled

NextSubmit == \E required \in BOOLEAN : HandleSubmit(required)

SpecSubmit == InitSubmit /\ [][NextSubmit]_vars

\* a session of create, update and delete requests on a fresh table
InitPosts ==
  InitDb /\ InitRunner /\ InitServer /\ InitForm /\ InitApi /\ InitView /\ InitClient

NextPosts ==
  \E dbOk \in BOOLEAN :
    \/ \E body \in CreateBodies : CreatePost(body, dbOk)
    \/ \E id \in RequestIds : \E body \in UpdateBodies : UpdatePost(id, body, dbOk)
    \/ \E id \in RequestIds : DeletePost(id, dbOk)
    \/ \E query \in Queries : ListPosts(query, dbOk)

SpecPosts == InitPosts /\ [][NextPosts]_vars

\* a form field sent as typed, empty or not
AsTyped(x) == x

\* `excerpt || undefined`, `finalTags.length > 0 ? finalTags : undefined`:
\* an empty string or array becomes undefined
OrUndefined(x) == IF x = <<0>> THEN Missing ELSE x

\* the post object handleSubmit builds from the form state; JSON.stringify
\* drops its undefined keys.  series and series_order are not read by the
\* PUT handler.
PostOf(form) ==
  Body([title     |-> form.title,
        slug      |-> form.slug,
        content   |-> form.content,
        excerpt   |-> OrUndefined(form.excerpt),
        category  |-> OrUndefined(form.category),
        tags      |-> OrUndefined(form.tags),
        published |-> form.published])

\* handleSubmit of the edit form: updatePost(parseInt(id), post) once the
\* required fields are filled in
SubmitEdit(id, form, dbOk) ==
  /\ ~Falsy(form.title) /\ ~Falsy(form.slug) /\ ~Falsy(form.content)
  /\ UpdatePost(id, PostOf(form), dbOk)

\* states of the edit form: optional fields emptied or filled in
EditForms ==
  [title : {<<0>>, <<2>>}, slug : {<<1>>}, content : {<<1>>},
   excerpt : {<<0>>, <<2>>}, category : {<<0>>, <<2>>}, tags : {<<0>>, <<2>>},
   published : {<<0>>, <<1>>}]

\* one update of a stored post
InitUpdate ==
  InitDb /\ InitRunner /\ InitServer /\ InitForm /\ InitStored /\ InitView /\ InitClient

NextUpdate ==
  \E dbOk \in BOOLEAN : \E id \in RequestIds :
    \/ \E body \in PartialBodies : UpdatePost(id, body, dbOk)
    \/ \E form \in EditForms : SubmitEdit(id, form, dbOk)

SpecUpdate == InitUpdate /\ [][NextUpdate]_vars

(* ============================ properties ============================= *)

\* the declared migrations absent from _migrations when instance p's run began
DueAtStart(p) ==
  LET Absent(m) == m \notin Range(startRows[p])
  IN  SelectSeq(migrations, Absent)

Occurrences(s, x) == Cardinality({i \in 1..Len(s) : s[i] = x})

\* instance p is inside up() of migration m or about to record it
InProgress(p, m) == pc[p] \in {"query", "mark"} /\ Current(p) = m

\* C1: in a single run the actions executed are exactly the declared migrations
\* not recorded when the run started, in declared order; each one is recorded
\* before the next one starts, and a recorded one is not run.
C1_RunExecutesPendingInOrder ==
  \A p \in Instances :
    /\ IsPrefix(ran[p], DueAtStart(p))
    /\ pc[p] = "returned" => ran[p] = DueAtStart(p)
    /\ IsPrefix(marked[p], ran[p])
    /\ Len(marked[p]) >= Len(ran[p]) - 1
    /\ Range(marked[p]) \subseteq Range(migRows)
    /\ Range(ran[p]) \cap Range(startRows[p]) = {}

\* A recorded, B and C pending: the run executed and recorded B then C only
C1_Witness ==
  /\ pc[1] = "returned"
  /\ startRows[1] = <<migrations[1]>>
  /\ ran[1] = SubSeq(migrations, 2, NumMigrations)
  /\ marked[1] = ran[1]
  /\ Len(ran[1]) >= 2

\* C2: a migration recorded when a run starts has its action executed neither
\* in that run nor in any later one: its count of up() calls no longer grows.
C2_RecordedNeverReExecuted ==
  [][\A p \in Instances : \A m \in Declared :
       m \in Range(startRows[p]) => upRuns'[m] = upRuns[m]]_vars

\* a third run that began with names recorded, executed others and completed
C2_Witness ==
  /\ runs[1] = 3
  /\ pc[1] = "returned"
  /\ startRows[1] # <<>>
  /\ ran[1] # <<>>

\* C3: when a migration's action fails the run stops there: the failing name
\* is not recorded, no later pending migration is executed or recorded, and
\* the error reaches the caller.
C3_FailedActionStopsRun ==
  \A p \in Instances :
    failSite[p] = "up" =>
      /\ pc[p] = "thrown"
      /\ err[p] \in {"db_error", "connect_timeout"}
      /\ ran[p] # <<>>
      /\ ran[p][Len(ran[p])] \notin Range(migRows)
      /\ ran[p] = SubSeq(pending[p], 1, Len(ran[p]))
      /\ marked[p] = SubSeq(ran[p], 1, Len(ran[p]) - 1)
      /\ migRows = startRows[p] \o marked[p]

\* a run that recorded one migration, failed in the next and left one untouched
C3_Witness ==
  /\ failSite[1] = "up"
  /\ Len(marked[1]) = 1
  /\ Len(ran[1]) = 2
  /\ Len(pending[1]) > Len(ran[1])
  /\ schema # startSchema[1]

\* C4: a successful run that follows a successful run executes no action and
\* inserts no row; the schema and the recorded names stay as the first run
\* left them.
C4_SecondRunIsNoOp ==
  \A p \in Instances :
    (pc[p] = "returned" /\ prevOutcome[p] = "returned") =>
      /\ ran[p] = <<>>
      /\ marked[p] = <<>>
      /\ migRows = startRows[p]
      /\ schema = startSchema[p]

C4_Witness ==
  /\ pc[1] = "returned"
  /\ prevOutcome[1] = "returned"
  /\ runs[1] = 2
  /\ Len(migRows) = NumMigrations
  /\ Cardinality(schema) = NumMigrations * NumStatements

\* C5 (as stated): across all runs, failed ones included, each migration's
\* action is executed at most once, and exactly once when a run has succeeded.
C5_ExactlyOnce ==
  \A m \in Declared :
    /\ upRuns[m] <= 1
    /\ (\E p \in Instances : pc[p] = "returned") => upRuns[m] = 1

\* C5 (amended): a migration's action is never executed once its name is
\* recorded, its name is recorded at most once, and it has been executed by
\* the time a run has succeeded; it is executed once more for every run that
\* failed in the action or in the insert of its tracking row.
C5_OncePerAttempt ==
  \A m \in Declared :
    /\ \A p \in Instances : InProgress(p, m) => m \notin Range(migRows)
    /\ Occurrences(migRows, m) <= 1
    /\ (\E p \in Instances : pc[p] = "returned") => upRuns[m] >= 1
    /\ upRuns[m] = failedAt[m]
                   + (IF m \in Range(migRows) THEN 1 ELSE 0)
                   + (IF \E p \in Instances : InProgress(p, m) THEN 1 ELSE 0)

\* an action executed three times: two failed attempts, then the recorded one
C5_Witness ==
  \E m \in Declared :
    /\ upRuns[m] = 3
    /\ failedAt[m] = 2
    /\ m \in Range(migRows)
    /\ pc[1] = "returned"

\* C6: the run after a run that failed partway starts at the first declared
\* migration that is not recorded, re-runs no recorded one and, when it
\* returns, has every declared migration recorded.
C6_ResumeAfterFailure ==
  \A p \in Instances :
    (prevOutcome[p] = "thrown" /\ startRows[p] # <<>>) =>
      /\ ran[p] # <<>> => ran[p][1] = DueAtStart(p)[1]
      /\ \A i \in 1..Len(ran[p]) : ran[p][i] \notin Range(startRows[p])
      /\ pc[p] = "returned" => AllRecorded

C6_Witness ==
  /\ prevOutcome[1] = "thrown"
  /\ startRows[1] # <<>>
  /\ Len(startRows[1]) < NumMigrations
  /\ pc[1] = "returned"
  /\ ran[1] # <<>>
  /\ AllRecorded

\* C7: a run ends in one of two ways: it returns normally with every declared
\* migration recorded, or it throws; it never returns with one unrecorded.
C7_ReturnMeansAllRecorded ==
  \A p \in Instances :
    /\ pc[p] = "returned" => (AllRecorded /\ err[p] = "none" /\ failSite[p] = "none")
    /\ pc[p] = "thrown" => (err[p] # "none" /\ failSite[p] # "none")
    /\ failSite[p] # "none" => pc[p] = "thrown"

\* a first run that executed and recorded every declared migration
C7_Witness ==
  /\ runs[1] = 1
  /\ pc[1] = "returned"
  /\ Len(ran[1]) = NumMigrations
  /\ AllRecorded

\* C8: the runner has completed before the server accepts requests, and no
\* request is handled while a declared migration is unrecorded.
C8_MigratedBeforeServing ==
  /\ serverPc # "start" => (pc[1] = "returned" /\ AllRecorded)
  /\ ~handledPending

\* C9: nothing keeps two instances from executing the same migration; the
\* UNIQUE constraint then lets only one of them record it, and the other
\* instance's run throws.
C9_DuplicateInsertRejected ==
  /\ \A m \in Declared : Occurrences(migRows, m) <= 1
  /\ \A p, q \in Instances : \A m \in Declared :
       (p # q /\ m \in Range(marked[p]) /\ m \in Range(ran[q]) /\ ~InProgress(q, m)) =>
          /\ m \notin Range(marked[q])
          /\ pc[q] = "thrown"

\* both read an empty table, both executed migration 1 in full; the later
\* insert hit the UNIQUE constraint and that instance threw
C9_Witness ==
  \E p, q \in Instances : \E m \in Declared :
    /\ p # q
    /\ m \notin executed[p] /\ m \notin executed[q]
    /\ m \in Range(ran[p]) /\ m \in Range(ran[q])
    /\ m \in Range(marked[p])
    /\ pc[q] = "thrown"
    /\ failSite[q] = "insert"
    /\ err[q] = "unique_violation"

\* C10 (as stated): within a series group, p comes before q exactly when
\* p.series_order <= q.series_order, a missing order counting as 0.
C10_BeforeIffLessOrEqual ==
  viewPc = "rendered" =>
    \A g \in 1..Len(seriesGroups) :
      LET ps == seriesGroups[g].posts
      IN  \A i, j \in 1..Len(ps) :
            i # j => ((i < j) <=> (OrderOrZero(ps[i]) <= OrderOrZero(ps[j])))

\* C10 (amended): within a series group, p comes before q whenever
\* p.series_order < q.series_order, and only if p.series_order <=
\* q.series_order (a missing order counting as 0); the group holds the posts
\* of that series and no other.
C10_OrderedBySeriesOrder ==
  viewPc = "rendered" =>
    \A g \in 1..Len(seriesGroups) :
      LET ps == seriesGroups[g].posts
      IN  /\ \A i, j \in 1..Len(ps) :
               /\ i < j => OrderOrZero(ps[i]) <= OrderOrZero(ps[j])
               /\ OrderOrZero(ps[i]) < OrderOrZero(ps[j]) => i < j
          /\ \A k \in 1..Len(posts) :
               posts[k].series = seriesGroups[g].name
                 => \E i \in 1..Len(ps) : ps[i] = posts[k]

\* posts with orders 2 and 1 in one series come out as [order 1, order 2]
C10_Witness ==
  /\ viewPc = "rendered"
  /\ Len(posts) = 2
  /\ posts[1].series = posts[2].series
  /\ posts[1].series_order = <<2>>
  /\ posts[2].series_order = <<1>>
  /\ Len(seriesGroups) = 1
  /\ seriesGroups[1].posts = <<posts[2], posts[1]>>

\* the positions of the posts whose tags contain the tag
Tagged(tag) == {i \in 1..Len(posts) : tag \in posts[i].tags}

\* C11: buildSeriesGroups partitions the posts that have a non-empty series:
\* each is in exactly one group, the one named after its series; a post
\* without a series is in no group; no group is empty; the groups are in
\* ascending order of their names.
C11_SeriesGroupsPartition ==
  viewPc = "rendered" =>
    /\ \A k \in 1..Len(posts) : \A g \in 1..Len(seriesGroups) :
         Occurrences(seriesGroups[g].posts, posts[k]) =
           IF posts[k].series # 0 /\ seriesGroups[g].name = posts[k].series THEN 1 ELSE 0
    /\ \A k \in 1..Len(posts) :
         posts[k].series # 0 =>
           Cardinality({g \in 1..Len(seriesGroups) :
                          seriesGroups[g].name = posts[k].series}) = 1
    /\ \A g \in 1..Len(seriesGroups) :
         /\ seriesGroups[g].posts # <<>>
         /\ Range(seriesGroups[g].posts) \subseteq Range(posts)
    /\ \A g, h \in 1..Len(seriesGroups) :
         g < h => seriesGroups[g].name < seriesGroups[h].name

\* series 2 met before series 1, and a post without a series: two groups
C11_Witness ==
  /\ viewPc = "rendered"
  /\ Len(posts) = 3
  /\ posts[1].series = 2
  /\ posts[2].series = 0
  /\ posts[3].series = 1
  /\ Len(seriesGroups) = 2
  /\ seriesGroups[1].posts = <<posts[3]>>
  /\ seriesGroups[2].posts = <<posts[1]>>

\* C12: the tag index lists each tag that occurs in some post exactly once,
\* the count of a tag is the number of posts whose tags contain it, and the
\* "All" button, shown whenever there is a tag, carries the number of posts,
\* whatever tag is selected.
C12_TagIndexCounts ==
  viewPc = "rendered" =>
    /\ Range(allTags) = UNION {posts[i].tags : i \in 1..Len(posts)}
    /\ \A j, k \in 1..Len(allTags) : j # k => allTags[j] # allTags[k]
    /\ Len(tagButtons) = Len(allTags)
    /\ \A k \in 1..Len(tagButtons) :
         /\ tagButtons[k].tag = allTags[k]
         /\ tagButtons[k].count = Cardinality(Tagged(allTags[k]))
    /\ allButton = IF allTags = <<>> THEN <<>> ELSE <<Len(posts)>>

\* a tag is selected; one post carries two tags, one tag is on two posts
C12_Witness ==
  /\ viewPc = "rendered"
  /\ selectedTag # <<>>
  /\ Len(posts) = 3
  /\ allButton = <<3>>
  /\ \E i \in 1..Len(posts) : Cardinality(posts[i].tags) = 2
  /\ \E k \in 1..Len(tagButtons) : tagButtons[k].count = 2
  /\ \E k \in 1..Len(tagButtons) : tagButtons[k].count = 1

\* C13: with a tag selected the filtered collection is exactly the posts
\* whose tags contain it, in their original order; with no tag selected it
\* is the whole collection.
C13_FilterBySelectedTag ==
  viewPc = "rendered" =>
    IF selectedTag = <<>>
      THEN filteredPosts = posts
      ELSE /\ {filteredPosts[j].id : j \in 1..Len(filteredPosts)} = Tagged(selectedTag[1])
           /\ \A j \in 1..Len(filteredPosts) : filteredPosts[j] = posts[filteredPosts[j].id]
           /\ \A j, k \in 1..Len(filteredPosts) :
                j < k => filteredPosts[j].id < filteredPosts[k].id

\* the (year, month) bucket of post k on the browser's local clock
BucketYear(k) ==
  EpochYear + ((IF posts[k].created_at = <<>> THEN 0 ELSE posts[k].created_at[1]) + tz)
                \div (MonthsPerYear * TicksPerMonth)

BucketMonth(k) ==
  (((IF posts[k].created_at = <<>> THEN 0 ELSE posts[k].created_at[1]) + tz)
     \div TicksPerMonth) % MonthsPerYear

\* the buckets of the date tree as <<year index, month index>>
Buckets ==
  {<<y, m>> : y \in 1..Len(dateTree), m \in 1..MonthsPerYear} \cap
  UNION {{<<y, m>> : m \in 1..Len(dateTree[y].months)} : y \in 1..Len(dateTree)}

RECURSIVE SumOver(_, _)
SumOver(S, f) ==
  IF S = {} THEN 0
  ELSE LET x == CHOOSE x \in S : TRUE IN f[x] + SumOver(S \ {x}, f)

\* C14: buildDateTree is lossless: every post is in exactly one bucket, the
\* (year, month) of its created_at (of the epoch when created_at is missing);
\* the buckets together hold the input posts, none dropped, none twice.
C14_DateTreeLossless ==
  viewPc = "rendered" =>
    /\ \A k \in 1..Len(posts) : \A b \in Buckets :
         Occurrences(dateTree[b[1]].months[b[2]].posts, posts[k]) =
           IF /\ dateTree[b[1]].year = BucketYear(k)
              /\ dateTree[b[1]].months[b[2]].month = BucketMonth(k)
           THEN 1 ELSE 0
    /\ \A k \in 1..Len(posts) :
         Cardinality({b \in Buckets :
                        /\ dateTree[b[1]].year = BucketYear(k)
                        /\ dateTree[b[1]].months[b[2]].month = BucketMonth(k)}) = 1
    /\ SumOver(Buckets, [b \in Buckets |-> Len(dateTree[b[1]].months[b[2]].posts)])
         = Len(posts)

\* three posts, one of them without created_at, spread over three buckets
C14_Witness ==
  /\ viewPc = "rendered"
  /\ Len(posts) = 3
  /\ \E k \in 1..Len(posts) : posts[k].created_at = <<>>
  /\ Cardinality(Buckets) = 3
  /\ Len(dateTree) = 2

\* the years, months and posts of the date tree are in descending order
DateTreeDescending ==
  /\ \A y, z \in 1..Len(dateTree) : y < z => dateTree[y].year > dateTree[z].year
  /\ \A y \in 1..Len(dateTree) :
       LET months == dateTree[y].months
       IN  /\ \A m, n \in 1..Len(months) : m < n => months[m].month > months[n].month
           /\ \A m \in 1..Len(months) :
                \A i, j \in 1..Len(months[m].posts) :
                  i < j => TimeOf(months[m].posts[i]) >= TimeOf(months[m].posts[j])

\* a post created at the first instant of January and one created at the
\* first instant of February of year y, in UTC
JanuaryFirst(post, y) == post.created_at = <<y * MonthsPerYear * TicksPerMonth>>
FebruaryFirst(post, y) ==
  post.created_at = <<y * MonthsPerYear * TicksPerMonth + TicksPerMonth>>

\* C15 (as stated): years, months and posts descend; posts created on
\* January 1st and on February 1st of a year give that year with February
\* before January.
C15_DescendingWithExample ==
  viewPc = "rendered" =>
    /\ DateTreeDescending
    /\ \A y \in 0..MaxYear :
         (Len(posts) = 2 /\ JanuaryFirst(posts[1], y) /\ FebruaryFirst(posts[2], y)) =>
            dateTree = <<[year |-> EpochYear + y,
                          months |-> <<[month |-> 1, posts |-> <<posts[2]>>],
                                       [month |-> 0, posts |-> <<posts[1]>>]>>]>>

\* C15 (amended): years, months and posts descend; posts whose created_at
\* falls in January and in February of the same year on the browser's local
\* clock give that year with February before January.
C15_DescendingLocalTime ==
  viewPc = "rendered" =>
    /\ DateTreeDescending
    /\ (/\ Len(posts) = 2
        /\ BucketYear(1) = BucketYear(2)
        /\ BucketMonth(1) = 0
        /\ BucketMonth(2) = 1) =>
          dateTree = <<[year |-> BucketYear(1),
                        months |-> <<[month |-> 1, posts |-> <<posts[2]>>],
                                     [month |-> 0, posts |-> <<posts[1]>>]>>]>>

\* west of UTC: the posts of January 1st and February 1st land in December
\* and January, while two later posts give February before January
C15_Witness ==
  /\ viewPc = "rendered"
  /\ tz = -1
  /\ Len(posts) = 2
  /\ BucketYear(1) = BucketYear(2)
  /\ BucketMonth(1) = 0
  /\ BucketMonth(2) = 1
  /\ Len(dateTree) = 1
  /\ dateTree[1].months[1].posts = <<posts[2]>>

\* C16: the primary feed is the filtered collection sorted by created_at
\* descending; featured are its first min(3, n) entries, additional the rest:
\* disjoint, together every filtered post once, and no additional post more
\* recent than a featured one.
C16_FeedSplit ==
  viewPc = "rendered" =>
    /\ Len(sortedPosts) = Len(filteredPosts)
    /\ \A k \in 1..Len(filteredPosts) : Occurrences(sortedPosts, filteredPosts[k]) = 1
    /\ \A i, j \in 1..Len(sortedPosts) :
         i < j => TimeOf(sortedPosts[i]) >= TimeOf(sortedPosts[j])
    /\ Len(featuredPosts) =
         (IF Len(sortedPosts) < FeaturedCount THEN Len(sortedPosts) ELSE FeaturedCount)
    /\ featuredPosts \o olderPosts = sortedPosts
    /\ Range(featuredPosts) \cap Range(olderPosts) = {}
    /\ \A i \in 1..Len(featuredPosts) : \A j \in 1..Len(olderPosts) :
         TimeOf(olderPosts[j]) <= TimeOf(featuredPosts[i])

\* a tag is selected, four posts carry it: three featured, one additional,
\* and the sort moved the oldest post from the front to the back
C16_Witness ==
  /\ viewPc = "rendered"
  /\ selectedTag = <<1>>
  /\ Len(filteredPosts) = 4
  /\ Len(featuredPosts) = 3
  /\ Len(olderPosts) = 1
  /\ olderPosts[1] = filteredPosts[1]
  /\ TimeOf(featuredPosts[1]) > TimeOf(olderPosts[1])

\* the last request was answered by the database, not with 500
Answered(method) == req.method = method /\ res.status # 500

\* the required fields of the last request's body are all non-empty
RequiredGiven ==
  \A k \in {"title", "slug", "content"} :
    k \in DOMAIN req.body /\ req.body[k] # NULL /\ req.body[k] # <<0>>

\* the slug of the last request's body is held by a post other than `id`
SlugHeldByOther(id) ==
  /\ "slug" \in DOMAIN req.body
  /\ \E r \in before : r.id # id /\ r.slug = req.body["slug"]

\* C17: no two stored posts ever share a slug; a POST passing validation, or
\* a PUT on a stored post, whose slug is that of another stored post is
\* answered 409 and leaves every stored post as it was.
C17_SlugUnique ==
  /\ \A r1, r2 \in postsTable : r1.slug = r2.slug => r1 = r2
  /\ (Answered("POST") /\ RequiredGiven /\ SlugHeldByOther(0)) =>
        res.status = 409 /\ postsTable = before
  /\ (Answered("PUT") /\ WhereId(before, req.id) # {} /\ SlugHeldByOther(req.id)) =>
        res.status = 409 /\ postsTable = before

\* an update asked for the slug of the other stored post and was refused
C17_Witness ==
  /\ req.method = "PUT"
  /\ res.status = 409
  /\ Cardinality(postsTable) = 2
  /\ WhereId(postsTable, req.id) # {}
  /\ SlugHeldByOther(req.id)

\* C18: DELETE of an id that is not stored is answered 404 and changes
\* nothing; DELETE of a stored id removes that post and no other, and
\* returns the removed post.
C18_Delete ==
  Answered("DELETE") =>
    IF WhereId(before, req.id) = {}
      THEN res.status = 404 /\ postsTable = before
    ELSE /\ res.status = 200
         /\ \E r \in before :
              /\ r.id = req.id
              /\ res.rows = <<r>>
              /\ postsTable = before \ {r}
         /\ \A r \in before : r.id # req.id => r \in postsTable

\* one of two stored posts was deleted
C18_Witness ==
  /\ req.method = "DELETE"
  /\ res.status = 200
  /\ Cardinality(before) = 2
  /\ Cardinality(postsTable) = 1

\* C19: POST with title, slug or content missing or empty is answered 400
\* and stores nothing; with all three given and a fresh slug it is answered
\* 201 and stores one new post, under an id no stored post has, with
\* published false when the body has none.
C19_Create ==
  Answered("POST") =>
    /\ ~RequiredGiven => res.status = 400 /\ postsTable = before
    /\ (RequiredGiven /\ ~SlugHeldByOther(0)) =>
         /\ res.status = 201
         /\ Len(res.rows) = 1
         /\ res.rows[1] \notin before
         /\ postsTable = before \cup {res.rows[1]}
         /\ \A r \in before : r.id # res.rows[1].id
         /\ \A k \in {"title", "slug", "content"} : res.rows[1][k] = req.body[k]
         /\ "published" \notin DOMAIN req.body => res.rows[1].published = <<0>>

\* a second post was created from a body without `published`
C19_Witness ==
  /\ req.method = "POST"
  /\ res.status = 201
  /\ before # {}
  /\ "published" \notin DOMAIN req.body
  /\ res.rows[1].published = <<0>>

\* the post the last PUT addressed, before and after
Old == CHOOSE r \in before : r.id = req.id
Updated == CHOOSE r \in postsTable : r.id = req.id

\* no post but the addressed one differs from before the request
OthersKept ==
  /\ \A r \in before : r.id # req.id => r \in postsTable
  /\ \A r \in postsTable : r.id # req.id => r \in before

\* C20 (as stated): a PUT replaces every field present in the body and
\* keeps every absent one, changes no other post, and answers 404 without
\* a change for an id that is not stored.
C20_PresentReplaces ==
  Answered("PUT") =>
    IF WhereId(before, req.id) = {}
      THEN res.status = 404 /\ postsTable = before
    ELSE res.status = 200 =>
           /\ OthersKept
           /\ \A k \in Fields :
                Updated[k] = IF k \in DOMAIN req.body THEN req.body[k] ELSE Old[k]

\* C20 (amended): a PUT that is applied replaces every field present in the
\* body with a non-null value and keeps every field that is absent or null,
\* changes no other post, and answers 404 without a change for an id that
\* is not stored.
C20_NonNullReplaces ==
  Answered("PUT") =>
    IF WhereId(before, req.id) = {}
      THEN res.status = 404 /\ postsTable = before
    ELSE /\ res.status \in {200, 409}
         /\ res.status = 409 => postsTable = before
         /\ res.status = 200 =>
              /\ OthersKept
              /\ Updated.id = Old.id
              /\ \A k \in Fields :
                   Updated[k] = IF k \in DOMAIN req.body /\ req.body[k] # NULL
                                  THEN req.body[k] ELSE Old[k]

\* an update with a given title, a null excerpt and no category was applied
\* to a post that had an excerpt, next to another stored post
C20_Witness ==
  /\ req.method = "PUT"
  /\ res.status = 200
  /\ Cardinality(postsTable) = 2
  /\ "title" \in DOMAIN req.body /\ req.body["title"] # NULL
  /\ "excerpt" \in DOMAIN req.body /\ req.body["excerpt"] = NULL
  /\ "category" \notin DOMAIN req.body
  /\ Old.excerpt # NULL
  /\ Updated.title # Old.title

\* C21: a stored post keeps its id and created_at over every request, and
\* its updated_at is refreshed by every successful PUT on it, a PUT with an
\* empty body included, and changed by nothing else.
C21_TimestampsAndId ==
  req.method # "none" =>
    /\ \A r1, r2 \in postsTable : r1.id = r2.id => r1 = r2
    /\ \A r \in postsTable :
         IF \E o \in before : o.id = r.id
           THEN LET o == CHOOSE o \in before : o.id = r.id
                IN  /\ r.created_at = o.created_at
                    /\ IF req.method = "PUT" /\ req.id = r.id /\ res.status = 200
                         THEN r.updated_at = now - 1 /\ r.updated_at > o.updated_at
                       ELSE r.updated_at = o.updated_at
         ELSE /\ req.method = "POST"
              /\ res.status = 201
              /\ res.rows = <<r>>
              /\ r.created_at = now - 1
    /\ (req.method = "PUT" /\ res.status = 200) => \E r \in postsTable : r.id = req.id

\* a PUT with an empty body on a stored post, next to another stored post
C21_Witness ==
  /\ req.method = "PUT"
  /\ res.status = 200
  /\ DOMAIN req.body = {}
  /\ Cardinality(postsTable) = 2
  /\ Updated.created_at = Old.created_at
  /\ Updated.updated_at > Old.updated_at

\* C24: GET /api/posts without a published parameter returns all stored
\* posts, with published=true exactly the published ones, in both cases
\* ordered by created_at descending.
C24_ListPosts ==
  (Answered("GET") /\ (req.body = <<>> \/ req.body = [published |-> "true"])) =>
    /\ res.status = 200
    /\ postsTable = before
    /\ Range(res.rows) =
         IF req.body = <<>> THEN postsTable
         ELSE {r \in postsTable : r.published = <<1>>}
    /\ Len(res.rows) = Cardinality(Range(res.rows))
    /\ \A i, j \in 1..Len(res.rows) :
         i < j => res.rows[i].created_at >= res.rows[j].created_at

\* published=true with a draft and a published post stored: one row returned
C24_Witness ==
  /\ req.method = "GET"
  /\ req.body = [published |-> "true"]
  /\ res.status = 200
  /\ Len(res.rows) = 1
  /\ Cardinality(postsTable) = 2

\* C22: a delete request is issued only after the user confirmed; when the
\* dialog of PostList.handleDelete or PostView.handleDelete is declined,
\* deletePost is not called, the list is not reloaded, nothing navigates.
C22_ConfirmBeforeDelete ==
  [][/\ (asked' # asked /\ ~lastAnswer') =>
          UNCHANGED <<dels, deleteCalls, postsTable, loads, loadCount, loading,
                      posts, route>>
     /\ (deleteCalls' # deleteCalls \/ ~(dels' \subseteq dels)) =>
          (asked' = asked + 1 /\ lastAnswer' /\ deleteCalls' = deleteCalls + 1)
     /\ postsTable' # postsTable => \E d \in dels : d \notin dels']_vars

\* two dialogs declined, the second in PostView: nothing was deleted
C22_Witness ==
  /\ asked = 2
  /\ ~lastAnswer
  /\ deleteCalls = 0
  /\ route = "view"
  /\ PostViewShows = "content"
  /\ Cardinality(postsTable) = 2

\* C23: a client checked out by a migration's up() or by testConnection is
\* released on every path: an instance holds one only inside an up() that
\* is running, none once runMigrations has returned or thrown; and the
\* clients checked out of a pool never exceed its maximum of 20.
C23_ClientsReleased ==
  \A p \in Instances :
    /\ client[p] => pc[p] = "query"
    /\ pc[p] \in {"idle", "returned", "thrown"} => ~client[p]
    /\ CheckedOut(p) <= PoolMax

\* a run threw from a statement of up() while the handlers held all but one
\* client of the pool: the client of up() is back
C23_Witness ==
  /\ pc[1] = "thrown"
  /\ failSite[1] = "up"
  /\ err[1] = "db_error"
  /\ ~client[1]
  /\ busy = PoolMax - 1
  /\ upRuns[migrations[1]] > 0

\* C25: deriving the views leaves `posts` as it was, elements and order, so
\* that computing every view again from it gives what is shown.
C25_DerivationsPure ==
  /\ [][(viewPc = "mounted" /\ viewPc' = "rendered") => posts' = posts]_vars
  /\ [](viewPc = "rendered" =>
          /\ allTags = AllTagsOf(posts)
          /\ filteredPosts = FilterByTag(posts, selectedTag)
          /\ sortedPosts = SortByCreatedDesc(FilterByTag(posts, selectedTag))
          /\ dateTree = buildDateTree(posts, tz)
          /\ seriesGroups = buildSeriesGroups(posts))

\* no tag selected, so filteredPosts is the posts array itself, and the feed
\* is in another order than posts
C25_Witness ==
  /\ viewPc = "rendered"
  /\ selectedTag = <<>>
  /\ Len(posts) >= 3
  /\ filteredPosts = posts
  /\ sortedPosts # posts
  /\ TimeOf(posts[1]) < TimeOf(posts[Len(posts)])

\* C26: when a loadPosts call completes, loading is false and error is
\* non-empty exactly if that call's fetch failed; a failed load shows the
\* retry prompt, and Retry starts a load that clears the error and, when
\* it succeeds, shows the fetched posts.
C26_LoadSettles ==
  [][/\ lastLoad' # lastLoad =>
          /\ ~loading'
          /\ error' # "" <=> ~lastLoad'.ok
          /\ lastLoad'.ok => \E call \in loads : posts' \in Fetched(call.query)
     /\ (~loading /\ error # "" /\ loadCount' # loadCount) =>
          (loading' /\ error' = "")]_vars

\* no two entries of `tags` are equal when compared case-insensitively
NoDuplicateIgnoringCase(tags) ==
  \A i, j \in DOMAIN tags :
    i < j => [k \in DOMAIN tags[i] |-> IF tags[i][k] = "A" THEN "a" ELSE tags[i][k]]
             # [k \in DOMAIN tags[j] |-> IF tags[j][k] = "A" THEN "a" ELSE tags[j][k]]

\* the tags of the post object PostForm sends
Sent == IF sentTags = <<>> THEN <<>> ELSE sentTags[1]

\* C27: on submit the trimmed new tag is appended to the selected tags only
\* if no selected tag equals it case-insensitively; selected tags free of
\* case-insensitive duplicates give sent tags free of them.
C27_NoDuplicateTagAdded ==
  formPc = "sending" =>
    /\ Sent = selectedTags \/ Sent = Append(selectedTags, Trim(newTag))
    /\ Sent # selectedTags =>
         /\ Trim(newTag) # <<>>
         /\ \A i \in DOMAIN selectedTags :
              NoDuplicateIgnoringCase(<<selectedTags[i], Trim(newTag)>>)
    /\ NoDuplicateIgnoringCase(selectedTags) => NoDuplicateIgnoringCase(Sent)

\* "a" is selected and " A" typed: nothing is appended
C27_Witness ==
  /\ formPc = "sending"
  /\ selectedTags = << <<"a">> >>
  /\ newTag = <<" ", "A">>
  /\ Sent = selectedTags

\* C28: from an empty _migrations table, whatever runs have returned, failed
\* or are under way, the recorded names are a prefix of the declared
\* sequence: no migration is recorded while an earlier one is unrecorded.
C28_RecordedIsPrefix ==
  /\ IsPrefix(migRows, migrations)
  /\ \A m, earlier \in Declared :
       (m \in Range(migRows) /\ earlier < m) => earlier \in Range(migRows)

\* a second run has failed too, with the first migration recorded and the
\* later ones not
C28_Witness ==
  /\ runs[1] = 2
  /\ pc[1] = "thrown"
  /\ prevOutcome[1] = "thrown"
  /\ migRows = <<1>>
  /\ upRuns[2] = 2

\* the fields a PUT could clear
Clearable == {"title", "slug", "content", "excerpt", "category", "tags"}

\* C29: a PUT never clears a stored field: a field that was non-null is
\* non-null afterwards, a missing or null body value falling back to the
\* stored one; the edit form submitted with an emptied excerpt or category,
\* or with no tags, leaves the old values stored.
C29_NeverClears ==
  Answered("PUT") =>
    /\ \A r \in before : \A k \in Clearable :
         r[k] # NULL => \E u \in postsTable : u.id = r.id /\ u[k] # NULL
    /\ (res.status = 200) =>
         /\ \A k \in Clearable :
              Param(req.body, k) = NULL => Updated[k] = Old[k]
         /\ \A form \in EditForms :
              req.body = PostOf(form) =>
                \A k \in {"excerpt", "category", "tags"} :
                  form[k] = <<0>> => Updated[k] = Old[k]

\* the edit form of a post with an excerpt and tags was submitted with the
\* excerpt and category emptied and no tag chosen, and the update was applied
C29_Witness ==
  /\ Answered("PUT")
  /\ res.status = 200
  /\ \E form \in EditForms :
       /\ req.body = PostOf(form)
       /\ form.excerpt = <<0>> /\ form.category = <<0>> /\ form.tags = <<0>>
  /\ Old.excerpt # NULL /\ Old.tags # NULL
  /\ Updated.excerpt = Old.excerpt /\ Updated.tags = Old.tags
  /\ Updated.title # Old.title

\* the posts PostList has on screen: its feed, which every post of the
\* state `posts` enters when no tag is selected, and the posts its tag
\* index, date tree and series groups are derived from
OnScreen == Range(posts) \cup Range(featuredPosts) \cup Range(olderPosts)

\* C30: while isAuthenticated is false the frontend shows no unpublished
\* post: the rendered PostList holds no draft, and PostView shows the content
\* of published posts only.
C30_NoDraftShown ==
  ~isAuthenticated =>
    /\ (route = "list" /\ ~loading /\ error = "" /\ viewPc = "rendered") =>
         \A p \in OnScreen : p.published
    /\ (route = "view" /\ PostViewShows = "content") => pvPost[1].published

====
